---- MODULE Spec2Model ----
(***************************************************************************)
(* A model of the free-list allocator of src/main.c: an sbrk-grown arena   *)
(* carved into blocks with embedded headers, first-fit search, splitting   *)
(* and a full-chain coalescing pass.  Addresses are byte addresses.        *)
(***************************************************************************)
EXTENDS Integers, Sequences, FiniteSets, TLC

VARIABLES head, hdr, mem, brk, live, op, freed

vars == <<head, hdr, mem, brk, live, op, freed>>

----------------------------------------------------------------------------
(* Program constants *)

ALIGNMENT == 8

\* sizeof(block_t) on an LP64 target: size_t (8) + int (4) + padding (4) + pointer (8)
BLOCK_SIZE == 24

NULL == 0

\* sbrk's failure sentinel, (void*) -1
SBRK_FAILED == -1

----------------------------------------------------------------------------
(* Bounds of the model *)

\* The provider grants at most this many 8-byte words in total.
MaxArenaWords == 12

\* The data patterns the client writes into its payloads.  The allocator
\* never inspects payload data, so one pattern stands for all.
Stamps == {1}

\* The request sizes the client draws from (0 is the rejected request).
Sizes == {0, 5, 8, 16}

\* The initial program break: a nonzero 8-byte aligned address.
HeapBase == 2 * ALIGNMENT

ArenaLimit == HeapBase + MaxArenaWords * ALIGNMENT

----------------------------------------------------------------------------
(* Memory contents.  Header fields are kept structured in hdr; mem maps the *)
(* address of each byte that holds client data to that data, DataByte(s, i). *)
(* Any other byte of the arena reads as Junk: a value the client cannot     *)
(* rely on (a byte no client wrote, a byte a header was written over, a     *)
(* byte of free memory).                                                     *)

Junk == 0 - 1

DataByte(stamp, i) == stamp * 100 + i

Byte(m, x) == IF x \in DOMAIN m THEN m[x] ELSE Junk

\* The heap as one value: what the allocator's functions read and write.
Heap == [head |-> head, hdr |-> hdr, mem |-> mem, brk |-> brk]

\* Writing the fields of a header at address a overwrites the bytes there.
WriteHeaderBytes(m, a) ==
    [x \in DOMAIN m \ (a .. a + BLOCK_SIZE - 1) |-> m[x]]

\* The addresses of the chain, in list order from block a.
RECURSIVE ChainFrom(_, _)
ChainFrom(hd, a) ==
    IF a = NULL THEN <<>> ELSE <<a>> \o ChainFrom(hd, hd[a].next)

Chain(h) == ChainFrom(h.hdr, h.head)

----------------------------------------------------------------------------
(* The allocator *)

\* size_t values.  A value within a small distance of SIZE_MAX is held as the
\* negative integer congruent to it modulo 2^64 (SIZE_MAX as -1), any other
\* value as itself.  size_t's +, - and the mask of ALIGN are then the integer
\* operations, and its order puts every negative representative above every
\* non-negative one.
size_le(a, b) == IF (a < 0) = (b < 0) THEN a <= b ELSE b < 0

\* The largest size_t.
SIZE_MAX == 0 - 1

ALIGN_down(size) == size - (size % ALIGNMENT)

\* (((size) + (ALIGNMENT-1)) & ~(ALIGNMENT-1)): clearing the low bits of x
\* takes x % ALIGNMENT off x.
ALIGN(size) == (size + (ALIGNMENT - 1)) - ((size + (ALIGNMENT - 1)) % ALIGNMENT)

get_block_ptr(ptr) == ptr - BLOCK_SIZE

\* sbrk(incr): the previous break, or SBRK_FAILED with the break unchanged.
\* grant is the environment's willingness to extend.
sbrk(h, incr, grant) ==
    IF grant /\ h.brk + incr <= ArenaLimit
    THEN [h |-> [h EXCEPT !.brk = h.brk + incr], ret |-> h.brk]
    ELSE [h |-> h, ret |-> SBRK_FAILED]

request_space_links_first(h, last, size, grant) ==
    LET block == h.brk
        r == sbrk(h, BLOCK_SIZE + size, grant)
        linked == IF last # NULL
                  THEN [r.h.hdr EXCEPT ![last].next = block]
                  ELSE r.h.hdr
        fresh == (block :> [size |-> size, free |-> 0, next |-> NULL])
    IN  IF r.ret = SBRK_FAILED
        THEN [h |-> [r.h EXCEPT !.hdr = linked], ret |-> NULL]
        ELSE [h |-> [r.h EXCEPT !.hdr = fresh @@ linked,
                                !.mem = WriteHeaderBytes(r.h.mem, block)],
              ret |-> block]

request_space(h, last, size, grant) ==
    LET block == h.brk
        r == sbrk(h, BLOCK_SIZE + size, grant)
    IN  IF r.ret = SBRK_FAILED
        THEN [h |-> r.h, ret |-> NULL]
        ELSE LET linked == IF last # NULL
                           THEN [r.h.hdr EXCEPT ![last].next = block]
                           ELSE r.h.hdr
                 fresh == (block :> [size |-> size, free |-> 0, next |-> NULL])
             IN  [h |-> [r.h EXCEPT !.hdr = fresh @@ linked,
                                    !.mem = WriteHeaderBytes(r.h.mem, block)],
                  ret |-> block]

fits_any_free(h, current, size) == h.hdr[current].free = 1

fits_strictly(h, current, size) ==
    h.hdr[current].free = 1 /\ h.hdr[current].size > size

\* The test of the first-fit scan: block current can serve the request.
fits(h, current, size) ==
    h.hdr[current].free = 1 /\ size_le(size, h.hdr[current].size)

RECURSIVE first_fit_loop(_, _, _, _)
first_fit_loop(h, current, last, size) ==
    IF current # NULL /\ ~fits(h, current, size)
    THEN first_fit_loop(h, h.hdr[current].next, current, size)
    ELSE [block |-> current, last |-> last]

\* last is the caller's variable as it stands before the call.
find_free_block_first_fit(h, last, size) ==
    first_fit_loop(h, h.head, last, size)

improves_or_ties(h, current, best_size) == size_le(h.hdr[current].size, best_size)

\* current->size < best_size, of size_t.
improves(h, current, best_size) == ~size_le(best_size, h.hdr[current].size)

RECURSIVE best_fit_loop(_, _, _, _, _, _)
best_fit_loop(h, current, best, best_size, last, size) ==
    IF current # NULL
    THEN LET better == /\ h.hdr[current].free = 1
                       /\ size_le(size, h.hdr[current].size)
                       /\ improves(h, current, best_size)
             best2 == IF better THEN current ELSE best
             best_size2 == IF better THEN h.hdr[current].size ELSE best_size
             last2 == IF best2 = NULL \/ current = best2 THEN current ELSE last
         IN  best_fit_loop(h, h.hdr[current].next, best2, best_size2, last2, size)
    ELSE [block |-> best, last |-> last]

\* *last is set to NULL before the scan, whatever the caller left in it.
find_free_block_best_fit(h, last, size) ==
    best_fit_loop(h, h.head, NULL, SIZE_MAX, NULL, size)

new_block_address_no_header(block, size) == block + size

\* (block_t*)((char*)(block + 1) + size)
new_block_address(block, size) == block + BLOCK_SIZE + size

splittable_strictly(h, block, size) ==
    h.hdr[block].size > size + BLOCK_SIZE + ALIGNMENT

\* The block is split only if the remainder can hold a header and
\* ALIGNMENT bytes.
splittable(h, block, size) ==
    h.hdr[block].size >= size + BLOCK_SIZE + ALIGNMENT

remainder_size_with_header(capacity, size) == capacity - size

\* new_block->size = block->size - size - BLOCK_SIZE
remainder_size(capacity, size) == capacity - size - BLOCK_SIZE

split_block(h, block, size) ==
    IF splittable(h, block, size)
    THEN LET new_block == new_block_address(block, size)
             made == (new_block :> [size |-> remainder_size(h.hdr[block].size, size),
                                    free |-> 1,
                                    next |-> h.hdr[block].next])
         IN  [h EXCEPT !.hdr = made @@ [h.hdr EXCEPT ![block].size = size,
                                                      ![block].next = new_block],
                       !.mem = WriteHeaderBytes(h.mem, new_block)]
    ELSE h

merged_size_no_header(current_size, next_size) == current_size + next_size

\* current->size += BLOCK_SIZE + current->next->size
merged_size(current_size, next_size) == current_size + BLOCK_SIZE + next_size

resume_at_successor(hd, current) == hd[current].next

\* After a merge the scan stays on the same block.
resume_after_merge(hd, current) == current

next_free(hd, current, nxt) == hd[nxt].free = 1

\* current->free && current->next->free
both_free(hd, current, nxt) == hd[current].free = 1 /\ hd[nxt].free = 1

\* An absorbed block leaves the chain: hdr keeps the headers reachable from
\* head, and the bytes of the absorbed one become payload of the merged block.
RECURSIVE coalesce_loop(_, _)
coalesce_loop(hd, current) ==
    IF current # NULL /\ hd[current].next # NULL
    THEN LET nxt == hd[current].next
             merged == [a \in DOMAIN hd \ {nxt} |->
                          IF a = current
                          THEN [hd[a] EXCEPT !.size = merged_size(hd[a].size, hd[nxt].size),
                                             !.next = hd[nxt].next]
                          ELSE hd[a]]
         IN  IF both_free(hd, current, nxt)
             THEN coalesce_loop(merged, resume_after_merge(merged, current))
             ELSE coalesce_loop(hd, nxt)
    ELSE hd

coalesce(h) == [h EXCEPT !.hdr = coalesce_loop(h.hdr, h.head)]

request_is_negative(size) == size < 0

\* The request my_malloc turns away: size <= 0, of a size_t.
request_is_empty(size) == size_le(size, 0)

my_malloc(h, size, grant) ==
    IF request_is_empty(size)
    THEN [h |-> h, ret |-> NULL]
    ELSE LET asize == ALIGN(size)
         IN  IF h.head = NULL
             THEN LET r == request_space(h, NULL, asize, grant)
                  IN  IF r.ret = NULL
                      THEN [h |-> r.h, ret |-> NULL]
                      ELSE [h |-> [r.h EXCEPT !.head = r.ret],
                            ret |-> r.ret + BLOCK_SIZE]
             ELSE LET f == find_free_block_first_fit(h, h.head, asize)
                  IN  IF f.block = NULL
                      THEN LET r == request_space(h, f.last, asize, grant)
                           IN  IF r.ret = NULL
                               THEN [h |-> r.h, ret |-> NULL]
                               ELSE [h |-> r.h, ret |-> r.ret + BLOCK_SIZE]
                      ELSE LET s == split_block(h, f.block, asize)
                           IN  [h |-> [s EXCEPT !.hdr[f.block].free = 0],
                                ret |-> f.block + BLOCK_SIZE]

my_free(h, ptr) ==
    IF ptr = NULL
    THEN h
    ELSE LET block == get_block_ptr(ptr)
         IN  coalesce([h EXCEPT !.hdr[block].free = 1])

memcpy(h, dst, src, n) ==
    LET to == dst .. dst + n - 1
        data == {x \in to : src + (x - dst) \in DOMAIN h.mem}
    IN  [h EXCEPT !.mem = [x \in (DOMAIN h.mem \ to) \cup data |->
                              IF x \in to THEN h.mem[src + (x - dst)] ELSE h.mem[x]]]

copy_length_short(h, block, size) == h.hdr[block].size - 1

\* The number of bytes my_realloc copies to the new block: block->size.
copy_length(h, block, size) == h.hdr[block].size

realloc_denied_frees(h, ptr) == my_free(h, ptr)

\* What my_realloc leaves behind when its allocation fails.
realloc_denied(h, ptr) == h

realloc_to_zero_keeps(h, ptr) == [h |-> h, ret |-> NULL]

\* my_realloc(ptr, 0) for a non-null ptr: my_free(ptr); return NULL.
realloc_to_zero(h, ptr) == [h |-> my_free(h, ptr), ret |-> NULL]

my_realloc(h, ptr, size, grant) ==
    IF ptr = NULL
    THEN my_malloc(h, size, grant)
    ELSE IF size = 0
    THEN realloc_to_zero(h, ptr)
    ELSE LET block == get_block_ptr(ptr)
         IN  IF h.hdr[block].size >= size
             THEN [h |-> split_block(h, block, size), ret |-> ptr]
             ELSE LET m == my_malloc(h, size, grant)
                  IN  IF m.ret = NULL
                      THEN [h |-> realloc_denied(m.h, ptr), ret |-> NULL]
                      ELSE [h |-> my_free(memcpy(m.h, m.ret, ptr, copy_length(h, block, size)),
                                          ptr),
                            ret |-> m.ret]

----------------------------------------------------------------------------
(* The client: the driver of main(), generalised.  live is the set of       *)
(* pointers the client holds.  op records the most recent call: its name,   *)
(* arguments and result (for a release, size is the capacity of the block   *)
(* released), and in was the value freed had when the call was made.        *)
(* freed is non-empty exactly when the two most recent allocator calls were *)
(* an allocation and the release of the pointer it returned: it then holds  *)
(* that pointer and the size that was asked for.                            *)

NoCall == [name |-> "none", ptr |-> NULL, size |-> 0, ret |-> NULL, was |-> <<>>]

Call(name, ptr, size, ret) ==
    [name |-> name, ptr |-> ptr, size |-> size, ret |-> ret, was |-> freed]

\* Whether byte x lies in the payload of a used block and under no header.
ClientByte(h, x) ==
    /\ \E b \in DOMAIN h.hdr :
          h.hdr[b].free = 0 /\ b + BLOCK_SIZE <= x /\ x < b + BLOCK_SIZE + h.hdr[b].size
    /\ \A b \in DOMAIN h.hdr : ~(b <= x /\ x < b + BLOCK_SIZE)

\* Between calls only the bytes of live payloads carry a value the client
\* can rely on; every other byte is indeterminate.
Settle(h) == [x \in {y \in DOMAIN h.mem : ClientByte(h, y)} |-> h.mem[x]]

Install(h) ==
    /\ head' = h.head
    /\ hdr' = h.hdr
    /\ mem' = Settle(h)
    /\ brk' = h.brk

Init ==
    /\ head = NULL
    /\ hdr = <<>>
    /\ mem = <<>>
    /\ brk = HeapBase
    /\ live = {}
    /\ op = NoCall
    /\ freed = <<>>

Malloc(size, grant) ==
    LET r == my_malloc(Heap, size, grant)
    IN  /\ Install(r.h)
        /\ live' = IF r.ret = NULL THEN live ELSE live \cup {r.ret}
        /\ op' = Call("malloc", NULL, size, r.ret)
        /\ freed' = <<>>

Free(ptr) ==
    /\ Install(my_free(Heap, ptr))
    /\ live' = live \ {ptr}
    /\ op' = Call("free", ptr, IF ptr = NULL THEN 0 ELSE hdr[get_block_ptr(ptr)].size, NULL)
    /\ freed' = IF ptr # NULL /\ op.name = "malloc" /\ op.ret = ptr
                THEN <<ptr, op.size>> ELSE <<>>

Realloc(ptr, size, grant) ==
    LET r == my_realloc(Heap, ptr, size, grant)
        kept == IF size = 0 \/ (r.ret # NULL /\ r.ret # ptr) THEN live \ {ptr} ELSE live
    IN  /\ Install(r.h)
        /\ live' = IF r.ret = NULL THEN kept ELSE kept \cup {r.ret}
        /\ op' = Call("realloc", ptr, size, r.ret)
        /\ freed' = <<>>

\* The client fills the payload it holds with a recognisable pattern.
Write(ptr, stamp) ==
    /\ mem' = [x \in ptr .. ptr + hdr[get_block_ptr(ptr)].size - 1 |->
                  DataByte(stamp, x - ptr)] @@ mem
    /\ mem' # mem
    /\ op' = Call("write", ptr, stamp, NULL)
    /\ UNCHANGED <<head, hdr, brk, live, freed>>

Next ==
    \/ \E size \in Sizes, grant \in BOOLEAN : Malloc(size, grant)
    \/ \E ptr \in live \cup {NULL} : Free(ptr)
    \/ \E ptr \in live \cup {NULL}, size \in Sizes, grant \in BOOLEAN :
          Realloc(ptr, size, grant)
    \/ \E ptr \in live, stamp \in Stamps : Write(ptr, stamp)

Spec == Init /\ [][Next]_vars

----------------------------------------------------------------------------
(* The second copy of the helpers (src/main.c from line 269 on).  Its       *)
(* split_block never stores new_block->free, so the flag of the block it    *)
(* carves is whatever int the payload bytes under it held: garbage, any of  *)
(* Garbage.  SpecCopy2 applies it to the heaps the program reaches, with    *)
(* the arguments my_malloc and my_realloc would pass.                       *)

\* What an int read from unwritten payload bytes can be: zero or not.
Garbage == {0, 1}

split_block_2(h, block, size, garbage) ==
    IF h.hdr[block].size >= size + BLOCK_SIZE + ALIGNMENT
    THEN LET new_block == block + BLOCK_SIZE + size
             made == (new_block :> [size |-> h.hdr[block].size - size - BLOCK_SIZE,
                                    free |-> garbage,
                                    next |-> h.hdr[block].next])
         IN  [h EXCEPT !.hdr = made @@ [h.hdr EXCEPT ![block].size = size,
                                                      ![block].next = new_block],
                       !.mem = WriteHeaderBytes(h.mem, new_block)]
    ELSE h

\* The sizes a caller passes for block: an aligned size a free block fits
\* (my_malloc), any size up to the capacity of a used one (my_realloc).
SplitRequests(block) ==
    {size \in 1 .. hdr[block].size :
        hdr[block].free = 1 => size % ALIGNMENT = 0}

SplitCopy2(block, size, garbage) ==
    LET h == split_block_2(Heap, block, size, garbage)
    IN  /\ head' = h.head
        /\ hdr' = h.hdr
        /\ mem' = h.mem
        /\ brk' = h.brk
        /\ op' = Call("split_block_2", block, size, NULL)
        /\ UNCHANGED <<live, freed>>

NextCopy2 ==
    \/ op.name # "split_block_2" /\ Next
    \/ /\ op.name # "split_block_2"
       /\ \E block \in DOMAIN hdr : \E size \in SplitRequests(block), garbage \in Garbage :
             SplitCopy2(block, size, garbage)

SpecCopy2 == Init /\ [][NextCopy2]_vars

----------------------------------------------------------------------------
(* Requests at the top of size_t's range, where ALIGN and BLOCK_SIZE + size *)
(* wrap around.  SpecWide adds them to the client's calls.  A block made by *)
(* such a call need not lie within the arena, so the model follows the      *)
(* program up to that call and no further.                                   *)

\* ALIGN as the second copy of the helpers defines it:
\* (((size) + (ALIGNMENT)) & ~(ALIGNMENT-1))
ALIGN_2(size) == (size + ALIGNMENT) - ((size + ALIGNMENT) % ALIGNMENT)

\* SIZE_MAX, the least size whose ALIGN wraps, and the greatest whose ALIGN
\* does not while BLOCK_SIZE + ALIGN does.
WideSizes == {SIZE_MAX, SIZE_MAX - (ALIGNMENT - 2), SIZE_MAX - (ALIGNMENT - 1)}

WideDone == op.name = "malloc" /\ op.size < 0

NextWide ==
    \/ ~WideDone /\ Next
    \/ /\ ~WideDone
       /\ \E size \in WideSizes, grant \in BOOLEAN : Malloc(size, grant)

SpecWide == Init /\ [][NextWide]_vars

----------------------------------------------------------------------------
(* The two search functions on their own.  SpecSearch lets each of them     *)
(* scan the heaps the program reaches: op then holds the size asked for, in *)
(* ret the block found and in ptr what the scan left in *last.  A scan       *)
(* changes nothing of the heap.                                              *)

\* The sizes searched for: the client's, and one no block of the arena holds
\* unless the whole of it is one block.
SearchSizes == (Sizes \ {0}) \cup {5 * ALIGNMENT}

\* find_free_block_first_fit as my_malloc calls it: last = head beforehand.
FirstFit(size) ==
    LET f == find_free_block_first_fit(Heap, head, size)
    IN  /\ op' = Call("first_fit", f.last, size, f.block)
        /\ UNCHANGED <<head, hdr, mem, brk, live, freed>>

BestFit(size) ==
    LET f == find_free_block_best_fit(Heap, head, size)
    IN  /\ op' = Call("best_fit", f.last, size, f.block)
        /\ UNCHANGED <<head, hdr, mem, brk, live, freed>>

NextSearch ==
    \/ Next
    \/ \E size \in SearchSizes : FirstFit(size)
    \/ \E size \in SearchSizes : BestFit(size)

SpecSearch == Init /\ [][NextSearch]_vars

----------------------------------------------------------------------------
(* Properties *)

\* No two list-adjacent blocks are both free.
NoAdjacentFree(hd) ==
    \A b \in DOMAIN hd :
       hd[b].next # NULL => ~(hd[b].free = 1 /\ hd[hd[b].next].free = 1)

Min(a, b) == IF a <= b THEN a ELSE b

\* The block whose payload starts at ptr.
BlockOf(ptr) == get_block_ptr(ptr)

----------------------------------------------------------------------------
\* C1: every non-null address my_malloc returns, for any size > 0 and after
\* any sequence of calls on a heap whose base is 8-byte aligned, is a multiple
\* of ALIGNMENT.
C1_MallocAligned ==
    (op.name = "malloc" /\ op.ret # NULL) => op.ret % ALIGNMENT = 0

----------------------------------------------------------------------------
\* C2: list order is address order and list-adjacent blocks are
\* memory-adjacent: each block with a successor is followed by it exactly
\* BLOCK_SIZE + size bytes after its own start.
C2_AddressOrder ==
    LET c == Chain(Heap)
    IN  /\ \A i \in 1 .. Len(c) - 1 : c[i + 1] = c[i] + BLOCK_SIZE + hdr[c[i]].size
        /\ \A b \in DOMAIN hdr : \E i \in 1 .. Len(c) : c[i] = b

\* A block carved by a split out of a coalesced block, between two others:
\* extension, coalescing and split have all acted.
C2_Witness ==
    /\ op.name = "malloc"
    /\ op.ret # NULL
    /\ hdr[BlockOf(op.ret)].next # NULL
    /\ hdr[hdr[BlockOf(op.ret)].next].free = 1
    /\ hdr[hdr[BlockOf(op.ret)].next].next # NULL

----------------------------------------------------------------------------
\* The block pre-state hdr would hold once block b is marked free.
Marked(b) == [hdr EXCEPT ![b].free = 1]

\* Every run of list-adjacent free blocks of hd lies within one free block of hd2.
RunsCollapsed(hd, c, hd2) ==
    \A i \in 1 .. Len(c) : \A j \in i .. Len(c) :
       (\A k \in i .. j : hd[c[k]].free = 1) =>
          \E d \in DOMAIN hd2 :
             /\ hd2[d].free = 1
             /\ d <= c[i]
             /\ c[j] + BLOCK_SIZE + hd[c[j]].size <= d + BLOCK_SIZE + hd2[d].size

\* C3: right after my_free of a non-null live pointer no two list-adjacent
\* blocks are both free, and every run of adjacent free blocks (three or more
\* included) has become a single free block.
C3_FreeCoalesces ==
    [][(op'.name = "free" /\ op'.ptr # NULL) =>
          /\ NoAdjacentFree(hdr')
          /\ RunsCollapsed(Marked(BlockOf(op'.ptr)), Chain(Heap), hdr')]_vars

\* The freed block lies strictly inside one free block: free neighbours on
\* both sides were absorbed together with it by the one pass.
C3_Witness ==
    /\ op.name = "free"
    /\ op.ptr # NULL
    /\ \E d \in DOMAIN hdr :
          /\ hdr[d].free = 1
          /\ d < BlockOf(op.ptr)
          /\ op.ptr + op.size < d + BLOCK_SIZE + hdr[d].size

----------------------------------------------------------------------------
\* The chain, the break and the client's data are what they were.
HeapUnchanged ==
    head' = head /\ hdr' = hdr /\ mem' = mem /\ brk' = brk

\* C4: a my_realloc that needs a larger block and whose allocation is denied
\* returns NULL and leaves the heap as it was: the block of ptr still in the
\* chain, used, with its size and payload, and every other block unchanged.
C4_ReallocDeniedKeepsHeap ==
    [][(/\ op'.name = "realloc"
        /\ op'.ptr # NULL
        /\ op'.size > hdr[BlockOf(op'.ptr)].size
        /\ op'.ret = NULL) =>
          /\ HeapUnchanged
          /\ BlockOf(op'.ptr) \in DOMAIN hdr'
          /\ hdr'[BlockOf(op'.ptr)].free = 0
          /\ op'.ptr \in live']_vars

\* A denied growing my_realloc of a pointer whose payload holds client data.
C4_Witness ==
    /\ op.name = "realloc"
    /\ op.ptr # NULL
    /\ op.ret = NULL
    /\ op.ptr \in live
    /\ op.size > hdr[BlockOf(op.ptr)].size
    /\ Byte(mem, op.ptr) # Junk

----------------------------------------------------------------------------
\* C5: a my_malloc of a size > 0 that needs an arena extension the provider
\* denies returns NULL and changes nothing: head, every header (size, free
\* flag, successor link: the tail's link included) and the break.
C5_MallocDeniedKeepsHeap ==
    [][(op'.name = "malloc" /\ op'.size > 0 /\ op'.ret = NULL) => HeapUnchanged]_vars

\* A denied my_malloc on a heap that has a tail to link from.
C5_Witness ==
    /\ op.name = "malloc"
    /\ op.size > 0
    /\ op.ret = NULL
    /\ head # NULL

----------------------------------------------------------------------------
\* C6: a successful growing my_realloc leaves at the new address the first
\* min(old size, new size) bytes that were at ptr, and the old block free:
\* released and coalesced.
C6_ReallocGrowCopies ==
    [][(/\ op'.name = "realloc"
        /\ op'.ptr # NULL
        /\ op'.ret # NULL
        /\ op'.size > hdr[BlockOf(op'.ptr)].size) =>
          LET old == BlockOf(op'.ptr)
              n == Min(hdr[old].size, op'.size)
          IN  /\ \A i \in 0 .. n - 1 : Byte(mem', op'.ret + i) = Byte(mem, op'.ptr + i)
              /\ \E d \in DOMAIN hdr' :
                    /\ hdr'[d].free = 1
                    /\ d <= old
                    /\ old + BLOCK_SIZE + hdr[old].size <= d + BLOCK_SIZE + hdr'[d].size
              /\ NoAdjacentFree(hdr')]_vars

\* A my_realloc that moved a payload holding client data.
C6_Witness ==
    /\ op.name = "realloc"
    /\ op.ptr # NULL
    /\ op.ret # NULL
    /\ op.ret # op.ptr
    /\ \E s \in Stamps : Byte(mem, op.ret) = DataByte(s, 0)

----------------------------------------------------------------------------
\* The step is a my_malloc of a size s' with 0 < s' <= s, made right after
\* my_malloc(s) and the release of the pointer it returned.
ReuseStep ==
    /\ op'.name = "malloc"
    /\ op'.was # <<>>
    /\ op'.size > 0
    /\ op'.size <= op'.was[2]

\* After the release, no block before the released one can serve the request.
NoEarlierFit(first, size) ==
    \A b \in DOMAIN hdr :
       b < BlockOf(first) => ~(hdr[b].free = 1 /\ hdr[b].size >= ALIGN(size))

\* C7 as stated: allocating s, releasing it, then allocating s' <= s with no
\* allocation in between returns the block at the position of the first
\* allocation and leaves the break where it was.
C7_ReuseSamePosition ==
    [][ReuseStep => (op'.ret = op'.was[1] /\ brk' = brk)]_vars

\* C7 as amended: the second allocation succeeds without moving the break and
\* is served at or before the first one's address; at that same address
\* exactly when, after the release, no earlier block is free and large enough
\* for the aligned s' (a free predecessor absorbs the released block, and an
\* earlier smaller free block may fit s' though it did not fit s).
C7_ReuseWithoutGrowth ==
    [][ReuseStep =>
          /\ op'.ret # NULL
          /\ brk' = brk
          /\ op'.ret <= op'.was[1]
          /\ (op'.ret = op'.was[1]) <=> NoEarlierFit(op'.was[1], op'.size)]_vars

\* A smaller request served at the address just released.
C7_Witness ==
    /\ op.name = "malloc"
    /\ op.was # <<>>
    /\ op.size > 0
    /\ op.size < op.was[2]
    /\ op.ret = op.was[1]

\* The second allocation lands before the first: the released block was
\* absorbed by a free predecessor.
C7_WitnessMoved ==
    /\ op.name = "malloc"
    /\ op.was # <<>>
    /\ op.size > 0
    /\ op.size <= op.was[2]
    /\ op.ret # NULL
    /\ op.ret < op.was[1]

----------------------------------------------------------------------------
\* C8: every block of the chain has a size that is a multiple of ALIGNMENT.
C8_SizesAligned ==
    \A b \in DOMAIN hdr : hdr[b].size % ALIGNMENT = 0

----------------------------------------------------------------------------
\* C10: my_realloc(ptr, size) with 0 < size <= the capacity of ptr's block
\* returns ptr, leaves the break alone, keeps the block used with capacity
\* >= size and its first size bytes, and changes no block but ptr's and the
\* free fragment it may carve off its end.
C10_ReallocInPlace ==
    [][(/\ op'.name = "realloc"
        /\ op'.ptr # NULL
        /\ op'.size > 0
        /\ op'.size <= hdr[BlockOf(op'.ptr)].size) =>
          LET b == BlockOf(op'.ptr)
              end == b + BLOCK_SIZE + hdr[b].size
          IN  /\ op'.ret = op'.ptr
              /\ brk' = brk
              /\ head' = head
              /\ b \in DOMAIN hdr'
              /\ hdr'[b].free = 0
              /\ hdr'[b].size >= op'.size
              /\ \A i \in 0 .. op'.size - 1 :
                    Byte(mem', op'.ptr + i) = Byte(mem, op'.ptr + i)
              /\ \A c \in DOMAIN hdr \ {b} : c \in DOMAIN hdr' /\ hdr'[c] = hdr[c]
              /\ \A c \in DOMAIN hdr' \ DOMAIN hdr :
                    /\ hdr'[c].free = 1
                    /\ hdr'[b].next = c
                    /\ hdr'[c].next = hdr[b].next
                    /\ b + BLOCK_SIZE + op'.size <= c
                    /\ c + BLOCK_SIZE + hdr'[c].size = end
              /\ \A x \in DOMAIN mem :
                    ~(b <= x /\ x < end) => Byte(mem', x) = Byte(mem, x)]_vars

\* A shrinking my_realloc that carved a free fragment off a payload holding
\* client data, with another block behind it.
C10_Witness ==
    /\ op.name = "realloc"
    /\ op.ptr # NULL
    /\ op.ret = op.ptr
    /\ op.size > 0
    /\ hdr[BlockOf(op.ptr)].size = op.size
    /\ op.size % ALIGNMENT # 0
    /\ hdr[hdr[BlockOf(op.ptr)].next].free = 1
    /\ hdr[hdr[BlockOf(op.ptr)].next].next # NULL
    /\ Byte(mem, op.ptr) # Junk

----------------------------------------------------------------------------
\* What split_block is to do to block b of capacity hd[b].size for request r,
\* taking headers hd to hd2.
SplitContract(hd, b, r, hd2) ==
    LET C == hd[b].size
        nb == b + BLOCK_SIZE + r
    IN  IF C - r - BLOCK_SIZE >= ALIGNMENT
        THEN /\ DOMAIN hd2 = DOMAIN hd \cup {nb}
             /\ \A c \in DOMAIN hd \ {b} : hd2[c] = hd[c]
             /\ hd2[b] = [size |-> r, free |-> hd[b].free, next |-> nb]
             /\ hd2[nb] = [size |-> C - r - BLOCK_SIZE, free |-> 1, next |-> hd[b].next]
             /\ hd2[b].size + hd2[nb].size + BLOCK_SIZE = C
        ELSE hd2 = hd

SplitContractFirstCopy ==
    \A b \in DOMAIN hdr : \A r \in 1 .. hdr[b].size :
       LET h == split_block(Heap, b, r)
       IN  /\ SplitContract(hdr, b, r, h.hdr)
           /\ h.head = head
           /\ h.brk = brk

----------------------------------------------------------------------------
\* C11: my_malloc(0) returns NULL and has no effect: the chain, the payload
\* bytes and the program break are as before (sbrk was not called) and the
\* client holds the same pointers, on the empty heap and on any other.
C11_MallocZeroNoEffect ==
    [][(op'.name = "malloc" /\ op'.size = 0)
          => (op'.ret = NULL /\ HeapUnchanged /\ live' = live)]_vars

\* my_malloc(0) was called on a heap that has blocks.
C11_Witness ==
    op.name = "malloc" /\ op.size = 0 /\ op.ret = NULL /\ head # NULL /\ live # {}

\* my_malloc(0) was called on the empty heap.
C11_WitnessEmpty ==
    op.name = "malloc" /\ op.size = 0 /\ op.ret = NULL /\ head = NULL

----------------------------------------------------------------------------
\* The step leaves the heap that the call with result r leaves.
StepYields(r) ==
    /\ op'.ret = r.ret
    /\ head' = r.h.head
    /\ hdr' = r.h.hdr
    /\ mem' = Settle(r.h)
    /\ brk' = r.h.brk

\* C12: my_realloc(NULL, size) returns what my_malloc(size) returns on the
\* same heap and leaves the same heap; my_realloc(p, 0) for a live p returns
\* NULL and leaves the heap my_free(p) leaves.
C12_ReallocDegenerate ==
    [][/\ (op'.name = "realloc" /\ op'.ptr = NULL)
            => \E grant \in BOOLEAN :
                  LET r == my_malloc(Heap, op'.size, grant)
                  IN  /\ StepYields(r)
                      /\ live' = IF r.ret = NULL THEN live ELSE live \cup {r.ret}
       /\ (op'.name = "realloc" /\ op'.ptr # NULL /\ op'.size = 0)
            => /\ StepYields([h |-> my_free(Heap, op'.ptr), ret |-> NULL])
               /\ live' = live \ {op'.ptr}]_vars

\* my_realloc(p, 0) released a live block, which now lies in a free block.
C12_Witness ==
    /\ op.name = "realloc" /\ op.ptr # NULL /\ op.size = 0 /\ op.ret = NULL
    /\ op.ptr \notin live
    /\ \E b \in DOMAIN hdr :
          hdr[b].free = 1 /\ b < op.ptr /\ op.ptr <= b + BLOCK_SIZE + hdr[b].size

\* my_realloc(NULL, size) allocated a block.
C12_WitnessNull ==
    op.name = "realloc" /\ op.ptr = NULL /\ op.ret # NULL /\ op.ret \in live

----------------------------------------------------------------------------
\* The smallest multiple of ALIGNMENT that is at least size.
AlignedUp(size) ==
    CHOOSE n \in size .. size + ALIGNMENT - 1 : n % ALIGNMENT = 0

\* The first block of chain c, in chain order, that is free and holds size.
FirstFitting(hd, c, size) ==
    IF \E i \in 1 .. Len(c) : hd[c[i]].free = 1 /\ hd[c[i]].size >= size
    THEN c[CHOOSE i \in 1 .. Len(c) :
              /\ hd[c[i]].free = 1 /\ hd[c[i]].size >= size
              /\ \A j \in 1 .. i - 1 : ~(hd[c[j]].free = 1 /\ hd[c[j]].size >= size)]
    ELSE NULL

\* The sizes of the example: 40, 80 and 20 bytes become blocks of 40, 80, 24.
C13_ExampleSizes ==
    ALIGN(40) = 40 /\ ALIGN(80) = 80 /\ ALIGN(20) = 24

\* C13: my_malloc(size), size > 0, turns to sbrk exactly when the heap is
\* empty or no free block holds the aligned size.  It then asks for exactly
\* BLOCK_SIZE + aligned size bytes and, when sbrk grants them, appends one
\* used block of the aligned size as the new tail (next NULL), linked from
\* the old tail or installed as head; every other header is as before.
\* Otherwise the break stays and the first fitting block becomes used.
C13_MallocExtends ==
    [][(op'.name = "malloc" /\ op'.size > 0)
          => LET asize == AlignedUp(op'.size)
                 c == Chain(Heap)
                 found == FirstFitting(hdr, c, asize)
             IN  /\ C13_ExampleSizes
                 /\ found = NULL
                      => \/ op'.ret = NULL /\ HeapUnchanged
                         \/ /\ brk' = brk + BLOCK_SIZE + asize
                            /\ op'.ret = brk + BLOCK_SIZE
                            /\ hdr'[brk] = [size |-> asize, free |-> 0, next |-> NULL]
                            /\ ChainFrom(hdr', head') = Append(c, brk)
                            /\ head' = IF c = <<>> THEN brk ELSE head
                            /\ \A b \in DOMAIN hdr :
                                  hdr'[b] = IF b = c[Len(c)]
                                            THEN [hdr[b] EXCEPT !.next = brk]
                                            ELSE hdr[b]
                 /\ found # NULL
                      => /\ brk' = brk
                         /\ op'.ret = found + BLOCK_SIZE
                         /\ hdr'[found].free = 0]_vars

\* my_malloc extended a heap whose chain had a free block too small for the
\* request: the new block is the tail, behind the old tail.
C13_Witness ==
    /\ op.name = "malloc" /\ op.size > 0 /\ op.ret # NULL
    /\ hdr[BlockOf(op.ret)].next = NULL
    /\ op.ret + hdr[BlockOf(op.ret)].size = brk
    /\ \E b \in DOMAIN hdr : hdr[b].free = 1 /\ hdr[b].size < hdr[BlockOf(op.ret)].size
    /\ \E b \in DOMAIN hdr : hdr[b].next = BlockOf(op.ret) /\ b # head

\* my_malloc reused a free block and left the break alone.
C13_WitnessReuse ==
    /\ op.name = "malloc" /\ op.size > 0 /\ op.ret # NULL
    /\ op.ret + hdr[BlockOf(op.ret)].size < brk
    /\ op.was # <<>>

----------------------------------------------------------------------------
\* C14: for every size > 0 of size_t, the sizes next to SIZE_MAX included,
\* the block a successful my_malloc(size) returns has capacity at least size;
\* when the call extended the arena the capacity is the smallest multiple of
\* ALIGNMENT that is at least size (so less than ALIGNMENT above it), and the
\* break moved by BLOCK_SIZE + capacity, a sum that does not wrap.
C14_CapacityHoldsRequest ==
    [][(op'.name = "malloc" /\ op'.size # 0 /\ op'.ret # NULL)
          => LET cap == hdr'[BlockOf(op'.ret)].size
             IN  /\ size_le(op'.size, cap)
                 /\ brk' # brk
                      => /\ cap % ALIGNMENT = 0
                         /\ cap - op'.size < ALIGNMENT
                         /\ cap >= 0
                         /\ brk' - brk = BLOCK_SIZE + cap]_vars

\* The same statement of the requests that stay clear of the top of the range.
C14_CapacityOfSmallRequests ==
    [][(op'.name = "malloc" /\ op'.size > 0 /\ op'.ret # NULL)
          => LET cap == hdr'[BlockOf(op'.ret)].size
             IN  /\ size_le(op'.size, cap)
                 /\ brk' # brk
                      => /\ cap = AlignedUp(op'.size)
                         /\ brk' - brk = BLOCK_SIZE + cap]_vars

\* The second copy's ALIGN yields the smallest multiple of ALIGNMENT that is
\* at least size.
C14_SecondCopyAlign ==
    \A size \in 1 .. 2 * ALIGNMENT : ALIGN_2(size) = AlignedUp(size)

----------------------------------------------------------------------------
\* The last block of the chain, NULL for the empty chain.
TailOf(c) == IF c = <<>> THEN NULL ELSE c[Len(c)]

\* The positions in chain c of the free blocks that hold size.
Candidates(hd, c, size) ==
    {i \in 1 .. Len(c) : hd[c[i]].free = 1 /\ hd[c[i]].size >= size}

\* C15: find_free_block_first_fit returns the first block in chain order that
\* is free and holds the size, NULL exactly when no block does; and when it
\* returns NULL on a non-empty chain, *last is the last block of the chain.
C15_FirstFit ==
    op.name = "first_fit"
       => LET c == Chain(Heap)
          IN  /\ op.ret = FirstFitting(hdr, c, op.size)
              /\ (op.ret = NULL) = (Candidates(hdr, c, op.size) = {})
              /\ (op.ret = NULL /\ c # <<>>) => op.ptr = TailOf(c)

\* The scan passed a block that does not serve and stopped at the first of
\* two that do.
C15_Witness ==
    /\ op.name = "first_fit" /\ op.ret # NULL /\ op.ret # head
    /\ \E b \in DOMAIN hdr : b > op.ret /\ hdr[b].free = 1 /\ hdr[b].size >= op.size

\* The scan found nothing in a chain of several blocks, one of them free.
C15_WitnessNone ==
    /\ op.name = "first_fit" /\ op.ret = NULL /\ op.ptr # head /\ op.ptr # NULL
    /\ \E b \in DOMAIN hdr : hdr[b].free = 1

\* C16: find_free_block_best_fit returns a free block that holds the size and
\* is of the least size among those that do, the earliest in chain order of
\* the blocks of that size; it returns NULL exactly when no free block holds
\* the size.
C16_BestFit ==
    op.name = "best_fit"
       => LET c == Chain(Heap)
              cand == Candidates(hdr, c, op.size)
          IN  IF cand = {}
              THEN op.ret = NULL
              ELSE \E i \in cand :
                     /\ op.ret = c[i]
                     /\ \A j \in cand :
                           /\ hdr[c[i]].size <= hdr[c[j]].size
                           /\ hdr[c[j]].size = hdr[c[i]].size => i <= j

\* The best fit is not the first fit: a larger block that serves precedes it.
C16_Witness ==
    /\ op.name = "best_fit" /\ op.ret # NULL
    /\ op.ret # FirstFitting(hdr, Chain(Heap), op.size)

\* Two blocks of the least size serve; the earlier one is returned.
C16_WitnessTie ==
    /\ op.name = "best_fit" /\ op.ret # NULL
    /\ \E b \in DOMAIN hdr :
          b > op.ret /\ hdr[b].free = 1 /\ hdr[b].size = hdr[op.ret].size

\* C17: find_free_block_best_fit leaves in *last the last block of the chain,
\* for every non-empty chain and every size, whether it finds a block or not.
C17_BestFitLastIsTail ==
    (op.name = "best_fit" /\ head # NULL) => op.ptr = TailOf(Chain(Heap))

\* What the scan does leave in *last: the tail when it finds nothing, the
\* block it returns when it finds one.
BestFitLast ==
    (op.name = "best_fit" /\ head # NULL)
       => op.ptr = IF op.ret = NULL THEN TailOf(Chain(Heap)) ELSE op.ret

----------------------------------------------------------------------------
\* The positions of address a in chain c.
PlacesOf(c, a) == {i \in 1 .. Len(c) : c[i] = a}

\* C18: every pointer the client holds is the payload start of a block that
\* is in the chain and marked used; the payloads of two such pointers do not
\* overlap; and a call on another pointer (or on none) leaves the block of a
\* held pointer at its address, used and of the same size.
C18_LiveBlocksIntact ==
    [][/\ \A p \in live' :
             /\ Cardinality(PlacesOf(ChainFrom(hdr', head'), BlockOf(p))) = 1
             /\ hdr'[BlockOf(p)].free = 0
       /\ \A p, q \in live' :
             p # q => \/ p + hdr'[BlockOf(p)].size <= q
                      \/ q + hdr'[BlockOf(q)].size <= p
       /\ \A p \in live \ {op'.ptr} :
             /\ p \in live'
             /\ hdr'[BlockOf(p)].free = hdr[BlockOf(p)].free
             /\ hdr'[BlockOf(p)].size = hdr[BlockOf(p)].size]_vars

\* A block was released while the client held two other pointers.
C18_WitnessTwo ==
    op.name = "free" /\ op.ptr # NULL /\ Cardinality(live) >= 2

\* A block was released and merged with a free neighbour, next to the block
\* of a pointer the client holds.
C18_Witness ==
    /\ op.name = "free" /\ op.ptr # NULL
    /\ \E b \in DOMAIN hdr :
          /\ hdr[b].free = 1 /\ hdr[b].size > op.size
          /\ hdr[b].next # NULL /\ hdr[b].next + BLOCK_SIZE \in live

----------------------------------------------------------------------------
\* The bytes the blocks of chain c take up, headers included.
RECURSIVE ChainBytes(_, _)
ChainBytes(hd, c) ==
    IF c = <<>> THEN 0 ELSE BLOCK_SIZE + hd[Head(c)].size + ChainBytes(hd, Tail(c))

\* C19: the chain tiles the arena: the blocks' header + size add up to the
\* bytes obtained from sbrk, the chain starts where the arena starts and its
\* last block ends at the break; and the break never moves down.
C19_ChainTilesArena ==
    [][LET c == ChainFrom(hdr', head')
       IN  /\ ChainBytes(hdr', c) = brk' - HeapBase
           /\ c # <<>> => /\ head' = HeapBase
                          /\ TailOf(c) + BLOCK_SIZE + hdr'[TailOf(c)].size = brk'
           /\ brk' >= brk]_vars

\* The arena was extended more than once and the last call split the block
\* it returns, at a size that is not a multiple of ALIGNMENT.
C19_Witness ==
    /\ op.name \in {"malloc", "realloc"} /\ op.ret # NULL
    /\ hdr[BlockOf(op.ret)].next # NULL
    /\ hdr[hdr[BlockOf(op.ret)].next].free = 1
    /\ hdr[BlockOf(op.ret)].size % ALIGNMENT # 0
    /\ Len(Chain(Heap)) >= 3

----------------------------------------------------------------------------
\* C20: in every state between calls, after my_malloc and my_realloc as well
\* as after my_free, no two list-adjacent blocks are both free.
C20_NoAdjacentFreeAlways == NoAdjacentFree(hdr)

\* The call was a my_realloc that kept the block in place.
InPlace == op'.name = "realloc" /\ op'.ptr # NULL /\ op'.size # 0 /\ op'.ret = op'.ptr

\* The call ran coalesce: a my_free, or a my_realloc that released the block
\* (size 0, or the data moved to a new block).
Releases ==
    \/ op'.name = "free" /\ op'.ptr # NULL
    \/ op'.name = "realloc" /\ op'.ptr # NULL /\ (op'.size = 0 \/ op'.ret \notin {NULL, op'.ptr})

\* C20, as it holds: a call that releases a block leaves no adjacent free
\* pair; any other call but an in-place my_realloc creates none; an in-place
\* my_realloc creates one exactly when it splits a block whose successor is
\* free, because split_block does not merge the fragment with it.
C20_AdjacentFreeOnlyFromShrink ==
    [][/\ Releases => NoAdjacentFree(hdr')
       /\ (~Releases /\ ~InPlace /\ NoAdjacentFree(hdr)) => NoAdjacentFree(hdr')
       /\ (InPlace /\ NoAdjacentFree(hdr))
            => LET b == BlockOf(op'.ptr)
                   shrinks == hdr[b].size >= op'.size + BLOCK_SIZE + ALIGNMENT
                   before_free == hdr[b].next # NULL /\ hdr[hdr[b].next].free = 1
               IN  NoAdjacentFree(hdr') = ~(shrinks /\ before_free)]_vars

\* An in-place my_realloc split a block that stood before a free block: the
\* fragment and that block are adjacent and both free.
C20_Witness ==
    /\ op.name = "realloc" /\ op.ptr # NULL /\ op.ret = op.ptr
    /\ LET f == hdr[BlockOf(op.ret)].next
       IN  /\ f # NULL /\ hdr[f].free = 1
           /\ hdr[f].next # NULL /\ hdr[hdr[f].next].free = 1

====
